---- MODULE Spec2Model ----
(***************************************************************************)
(* Model of utils/sample_tts_files.py: the stratified sampler run_sampling *)
(* (plan loading, file indexing, folder/bucket map, per-folder sampling,   *)
(* deduplication, manifest) and the bucket classifier assign_bucket.       *)
(*                                                                         *)
(* A path is a record [dir, name, ext]: dir is the sequence of directory   *)
(* components, name and ext the two halves os.path.splitext gives.         *)
(* A duration is the exact quotient frames / samplerate, kept as the pair  *)
(* <<frames, samplerate>>; comparisons against the bucket bounds are done  *)
(* by cross-multiplication, which is what the float comparison decides for *)
(* the magnitudes used here.                                               *)
(***************************************************************************)
EXTENDS Integers, Sequences, FiniteSets, TLC

\* ---------------------------------------------------------------- bounds

\* Longest sampling plan (number of rows).
MaxRows == 2
\* Largest count written in a "Samples <bucket>" cell.
MaxReq == 2
\* Seeds are 0..MaxSeed.
MaxSeed == 1
\* Size of the state space of the pseudo-random source.
RngMod == 16
\* Frame counts and sample rates tried on the bucket classifier.
MaxFrames == 70
MaxRate == 3

\* ---------------------------------------------------------------- state

VARIABLES
    plan_csv,           \* the plan file: [columns, rows]
    disk,               \* what each file of DiskTree probes as
    seed,               \* --seed
    pc,                 \* where run_sampling is
    rng,                \* the random source's state
    plan_df,            \* the loaded plan
    row,                \* the row the current loop is at
    files,              \* build_file_index's all_files
    folder_bucket_map,
    all_selected,
    manifest,           \* the rows written to output_csv
    written,            \* whether output_csv was written
    log,                \* the lines printed
    draws,              \* per requested bucket: what it saw and took
    error,              \* the exception that ended the run, or ""
    run,                \* 1 for the first run, 2 for the rerun
    prev,               \* the first run, kept for comparison
    duration,           \* the classifier's argument
    label               \* the classifier's result

vars == << plan_csv, disk, seed, pc, rng, plan_df, row, files, folder_bucket_map,
           all_selected, manifest, written, log, draws, error, run, prev,
           duration, label >>

\* ------------------------------------------------------------- constants

None == "None"
NoneDur == <<>>
NoPath == [dir |-> <<>>, name |-> "", ext |-> ""]

AUDIO_EXTENSIONS == {".wav", ".flac", ".mp3", ".m4a", ".ogg"}

\* BUCKET_DEFS in insertion order; open is "hi is None".
BUCKET_DEFS ==
    << [name |-> "[0, 1)",   lo |-> 0,  hi |-> 1,  open |-> FALSE],
       [name |-> "[1, 5)",   lo |-> 1,  hi |-> 5,  open |-> FALSE],
       [name |-> "[5, 10)",  lo |-> 5,  hi |-> 10, open |-> FALSE],
       [name |-> "[10, 15)", lo |-> 10, hi |-> 15, open |-> FALSE],
       [name |-> "[15, 20)", lo |-> 15, hi |-> 20, open |-> FALSE],
       [name |-> "[20, 25)", lo |-> 20, hi |-> 25, open |-> FALSE],
       [name |-> "[25, 30)", lo |-> 25, hi |-> 30, open |-> FALSE],
       [name |-> "[30+)",    lo |-> 30, hi |-> 0,  open |-> TRUE] >>

BucketNames == [i \in 1..Len(BUCKET_DEFS) |-> BUCKET_DEFS[i].name]
BucketSet == {BUCKET_DEFS[i].name : i \in 1..Len(BUCKET_DEFS)}
BucketIndex(b) == CHOOSE i \in 1..Len(BUCKET_DEFS) : BUCKET_DEFS[i].name = b

\* ---------------------------------------------------------------- utils

\* str.lower() on the extensions that occur on the modelled disk.
Lower(ext) ==
    CASE ext = ".WAV" -> ".wav"
      [] ext = ".FLAC" -> ".flac"
      [] OTHER -> ext

is_audio_file(path) == Lower(path.ext) \in AUDIO_EXTENSIONS

\* sf.info(path) is the probe record [ok, frames, samplerate]; ok = FALSE is
\* the exception.  The result is the duration (or NoneDur for None) and
\* whether the [WARN] line was printed.
get_duration_seconds(probe) ==
    IF ~probe.ok
    THEN [dur |-> NoneDur, warned |-> TRUE]
    ELSE IF probe.samplerate > 0
         THEN [dur |-> <<probe.frames, probe.samplerate>>, warned |-> FALSE]
         ELSE [dur |-> NoneDur, warned |-> FALSE]

\* lo <= duration, duration < hi for duration = d[1] / d[2], d[2] > 0.
DurGeq(d, lo) == d[1] >= lo * d[2]
\* The upper bound taken as inclusive.
DurLess_Inclusive(d, hi) == d[1] <= hi * d[2]
DurLess(d, hi) == d[1] < hi * d[2]

RECURSIVE AssignFrom(_, _)
AssignFrom(d, i) ==
    IF i > Len(BUCKET_DEFS) THEN None
    ELSE LET b == BUCKET_DEFS[i] IN
         IF b.open
         THEN IF DurGeq(d, b.lo) THEN b.name ELSE AssignFrom(d, i + 1)
         ELSE IF DurGeq(d, b.lo) /\ DurLess(d, b.hi) THEN b.name
              ELSE AssignFrom(d, i + 1)

assign_bucket(d) == AssignFrom(d, 1)

\* ----------------------------------------------------------------- disk

\* The tree under the audio root, in os.walk order (a directory's files,
\* then its subdirectories).
DiskTree ==
    << [dir |-> <<"a">>,      name |-> "1",     ext |-> ".wav"],
       [dir |-> <<"a">>,      name |-> "2",     ext |-> ".WAV"],
       [dir |-> <<"a">>,      name |-> "notes", ext |-> ".txt"],
       [dir |-> <<"a", "s">>, name |-> "3",     ext |-> ".flac"],
       [dir |-> <<"a", "s">>, name |-> "4",     ext |-> ".ogg"] >>

Dirs == {<<>>} \cup {DiskTree[i].dir : i \in 1..Len(DiskTree)}

Root == <<"root">>

\* What sf.info gives: 0.5 s, 1.0 s, 7.0 s, an exception, a zero sample rate.
ProbeHalf  == [ok |-> TRUE,  frames |-> 1, samplerate |-> 2]
ProbeOne   == [ok |-> TRUE,  frames |-> 1, samplerate |-> 1]
ProbeSeven == [ok |-> TRUE,  frames |-> 7, samplerate |-> 1]
ProbeFail  == [ok |-> FALSE, frames |-> 0, samplerate |-> 0]
ProbeZero  == [ok |-> TRUE,  frames |-> 5, samplerate |-> 0]

\* The disks tried: what each file of DiskTree probes as.
Disks ==
    { <<ProbeHalf, p2, ProbeFail, p3, ProbeSeven>> :
        p2 \in {ProbeHalf, ProbeOne, ProbeFail, ProbeZero},
        p3 \in {ProbeHalf, ProbeSeven} }

\* ---------------------------------------------------------------- paths

NotDot(c) == c # "."
\* The directory a key names once "." components are resolved.
Normalize(key) == SelectSeq(key, NotDot)

IsPrefix(p, s) == Len(p) <= Len(s) /\ SubSeq(s, 1, Len(p)) = p

\* os.path.join(root, folder_key), as directory components.
JoinRoot(key) == Root \o key

isdir(key) == Normalize(key) \in Dirs

\* The full path os.walk(folder_path) yields for disk file f: folder_path
\* as spelled, then the file's place below it.
WalkPath(key, f) ==
    [dir  |-> JoinRoot(key) \o SubSeq(f.dir, Len(Normalize(key)) + 1, Len(f.dir)),
     name |-> f.name,
     ext  |-> f.ext]

\* os.path.relpath(path, audio_root): normalised, below the root.
relpath(path) ==
    [dir  |-> Normalize(SubSeq(path.dir, Len(Root) + 1, Len(path.dir))),
     name |-> path.name,
     ext  |-> path.ext]

\* ------------------------------------------------------------------ log

Msg(level, kind, subject, bucket, n) ==
    [level |-> level, kind |-> kind, subject |-> subject, bucket |-> bucket, n |-> n]

RECURSIVE WalkFrom(_, _)
WalkFrom(key, i) ==
    IF i > Len(DiskTree) THEN <<>>
    ELSE LET f == DiskTree[i] IN
         (IF IsPrefix(Normalize(key), f.dir) /\ is_audio_file(WalkPath(key, f))
          THEN << [path |-> WalkPath(key, f), file |-> i] >>
          ELSE <<>>) \o WalkFrom(key, i + 1)

\* find_files_in_folder without the isdir test: os.walk of a path that is
\* no directory yields nothing, and nothing is printed.
find_files_in_folder_NoCheck(key) ==
    [files |-> IF isdir(key) THEN WalkFrom(key, 1) ELSE <<>>, log |-> <<>>]

\* The audio files under root/folder_key, each with its index in DiskTree,
\* and the lines printed.
find_files_in_folder(key) ==
    IF ~isdir(key)
    THEN [files |-> <<>>,
          log |-> << Msg("WARN", "folder_not_found", [NoPath EXCEPT !.dir = JoinRoot(key)], "", 0) >>]
    ELSE [files |-> WalkFrom(key, 1), log |-> <<>>]

\* A folder key as the subject of a log line.
KeyPath(key) == [NoPath EXCEPT !.dir = key]

\* ----------------------------------------------------------------- plan

\* A cell of the plan as pandas hands it over: empty (NaN), a number, or
\* text that is no number.
NaN == [kind |-> "nan", val |-> 0]
Num(n) == [kind |-> "num", val |-> n]
Text == [kind |-> "text", val |-> 0]

isna(cell) == cell.kind = "nan"
\* int(cell) raises ValueError on text.
IntRaises(cell) == cell.kind = "text"
IntOf(cell) == cell.val

\* Column names: <<"Folder">>, <<"group">>, <<"Target Samples">>,
\* <<"Samples", bucket>> for f"Samples {bucket}".
ColFolder == <<"Folder">>
ColGroup == <<"group">>
ColTarget == <<"Target Samples">>
SamplesCol(b) == <<"Samples", b>>

\* pd.read_csv, then the column check.  A row keeps its folder cell in
\* .Folder whichever of the two names the column has; the rename only
\* changes the column's name.
load_sampling_plan(p) ==
    LET renamed == IF ColGroup \in p.columns /\ ColFolder \notin p.columns
                   THEN (p.columns \ {ColGroup}) \cup {ColFolder}
                   ELSE p.columns
    IN IF ColFolder \notin renamed
       THEN [raised |-> TRUE, df |-> [columns |-> renamed, rows |-> <<>>]]
       ELSE [raised |-> FALSE, df |-> [columns |-> renamed, rows |-> p.rows]]

\* ---------------------------------------------------------------- index

FileInfo(folder, path, rel_path, dur, bucket) ==
    [folder |-> folder, path |-> path, rel_path |-> rel_path,
     duration |-> dur, bucket |-> bucket]

\* The inner loop of build_file_index over the files found for one row.
RECURSIVE IndexFiles(_, _, _, _)
IndexFiles(key, found, probes, i) ==
    IF i > Len(found) THEN [files |-> <<>>, log |-> <<>>]
    ELSE LET f == found[i]
             got == get_duration_seconds(probes[f.file])
             rest == IndexFiles(key, found, probes, i + 1)
             warn == IF got.warned
                     THEN << Msg("WARN", "unreadable", f.path, "", 0) >>
                     ELSE <<>>
         IN IF got.dur = NoneDur
            THEN [files |-> rest.files, log |-> warn \o rest.log]
            ELSE [files |-> << FileInfo(key, f.path, relpath(f.path), got.dur,
                                        assign_bucket(got.dur)) >> \o rest.files,
                  log |-> warn \o rest.log]

\* One iteration of build_file_index's loop over the plan rows.
IndexRowResult(plan_row, probes) ==
    LET key == plan_row.Folder
        ff == find_files_in_folder(key)
        ix == IndexFiles(key, ff.files, probes, 1)
    IN [files |-> ix.files,
        log |-> ff.log
                \o << Msg("INFO", "found", KeyPath(key), "", Len(ff.files)) >>
                \o ix.log]

InFolderBucket(fs, folder, b) ==
    LET Hit(fi) == fi.folder = folder /\ fi.bucket = b IN SelectSeq(fs, Hit)

\* folder -> bucket -> files, each list in index order; records with no
\* bucket are skipped.
build_folder_bucket_map(fs) ==
    LET bucketed == {i \in 1..Len(fs) : fs[i].bucket # None}
        folders == {fs[i].folder : i \in bucketed}
    IN [f \in folders |->
          [b \in {fs[i].bucket : i \in {j \in bucketed : fs[j].folder = f}} |->
             InFolderBucket(fs, f, b)]]

\* --------------------------------------------------------- random source

\* A generator seeded from the clock, as random.Random() with no argument
\* is: the second run starts elsewhere.
SeedRng_Clock(sd) == run % RngMod

\* random.Random(seed): the generator's state after seeding.  The Mersenne
\* Twister is abstracted to a generator over 0..RngMod-1; what matters to
\* the sampler is that it is a state, advanced by every draw, and that a
\* draw is a function of that state.
SeedRng(sd) == sd % RngMod
RandNext(s) == (5 * s + 3) % RngMod
\* rng._randbelow(n)
randbelow(s, n) == [val |-> RandNext(s) % n, rng |-> RandNext(s)]

\* random.sample's pool loop: for i in range(k): j = randbelow(n - i);
\* result[i] = pool[j]; pool[j] = pool[n - i - 1].
RECURSIVE SampleLoop(_, _, _, _, _)
SampleLoop(pool, n, k, i, s) ==
    IF i >= k THEN [chosen |-> <<>>, rng |-> s]
    ELSE LET r == randbelow(s, n - i)
             j == r.val + 1
             rest == SampleLoop([pool EXCEPT ![j] = pool[n - i]], n, k, i + 1, r.rng)
         IN [chosen |-> << pool[j] >> \o rest.chosen, rng |-> rest.rng]

\* rng.sample(population, k), k <= len(population)
rng_sample(population, k, s) == SampleLoop(population, Len(population), k, 0, s)

\* -------------------------------------------------------------- sampler

\* The first loop of sample_for_folder: the requested count per bucket, in
\* BUCKET_DEFS order, of the columns the plan has.
RECURSIVE Requested(_, _, _)
Requested(plan_row, columns, i) ==
    IF i > Len(BUCKET_DEFS) THEN [raised |-> FALSE, req |-> <<>>]
    ELSE LET b == BUCKET_DEFS[i].name
             cell == plan_row.Samples[b]
         IN IF SamplesCol(b) \notin columns THEN Requested(plan_row, columns, i + 1)
            ELSE IF ~isna(cell) /\ IntRaises(cell)
                 THEN [raised |-> TRUE, req |-> <<>>]
                 ELSE LET requested_count == IF ~isna(cell) THEN IntOf(cell) ELSE 0
                          rest == Requested(plan_row, columns, i + 1)
                      IN IF requested_count > 0
                         THEN [raised |-> rest.raised,
                               req |-> << <<b, requested_count>> >> \o rest.req]
                         ELSE rest

Available(folder_buckets, b) ==
    IF b \in DOMAIN folder_buckets THEN folder_buckets[b] ELSE <<>>

\* SampleBucket with a shortfall (fewer available than requested) treated
\* like an empty bucket: warned about and skipped.
SampleBucket_SkipShort(folder, b, n_req, available, s) ==
    IF Len(available) < n_req
    THEN [chosen |-> <<>>, rng |-> s,
          log |-> << Msg("WARN", "found_zero", KeyPath(folder), b, n_req) >>]
    ELSE IF Len(available) = n_req
         THEN [chosen |-> available, rng |-> s,
               log |-> << Msg("INFO", "taking_all", KeyPath(folder), b, n_req) >>]
         ELSE LET r == rng_sample(available, n_req, s)
              IN [chosen |-> r.chosen, rng |-> r.rng, log |-> <<>>]

\* SampleBucket with "<" for "<=": an exact match goes through rng.sample.
SampleBucket_Strict(folder, b, n_req, available, s) ==
    IF Len(available) = 0
    THEN [chosen |-> <<>>, rng |-> s,
          log |-> << Msg("WARN", "found_zero", KeyPath(folder), b, n_req) >>]
    ELSE IF Len(available) < n_req
         THEN [chosen |-> available, rng |-> s,
               log |-> << Msg("INFO", "taking_all", KeyPath(folder), b, n_req) >>]
         ELSE LET r == rng_sample(available, n_req, s)
              IN [chosen |-> r.chosen, rng |-> r.rng, log |-> <<>>]

\* What one requested bucket does: the files it selects, the random source
\* after it, the line it prints.
SampleBucket(folder, b, n_req, available, s) ==
    IF Len(available) = 0
    THEN [chosen |-> <<>>, rng |-> s,
          log |-> << Msg("WARN", "found_zero", KeyPath(folder), b, n_req) >>]
    ELSE IF Len(available) <= n_req
         THEN [chosen |-> available, rng |-> s,
               log |-> << Msg("INFO", "taking_all", KeyPath(folder), b, n_req) >>]
         ELSE LET r == rng_sample(available, n_req, s)
              IN [chosen |-> r.chosen, rng |-> r.rng, log |-> <<>>]

\* The second loop of sample_for_folder, over the requested buckets.
RECURSIVE SampleLoopBuckets(_, _, _, _, _, _)
SampleLoopBuckets(folder, req, folder_buckets, s, rowNo, i) ==
    IF i > Len(req) THEN [selected |-> <<>>, rng |-> s, log |-> <<>>, draws |-> <<>>]
    ELSE LET b == req[i][1]
             n_req == req[i][2]
             available == Available(folder_buckets, b)
             one == SampleBucket(folder, b, n_req, available, s)
             rest == SampleLoopBuckets(folder, req, folder_buckets, one.rng, rowNo, i + 1)
         IN [selected |-> one.chosen \o rest.selected,
             rng |-> rest.rng,
             log |-> one.log \o rest.log,
             draws |-> << [row |-> rowNo, folder |-> folder, bucket |-> b, navail |-> Len(available),
                           nreq |-> n_req, before |-> s, after |-> one.rng,
                           chosen |-> one.chosen] >> \o rest.draws]

sample_for_folder(folder, plan_row, columns, folder_buckets, s, rowNo) ==
    LET requested == Requested(plan_row, columns, 1)
    IN IF requested.raised
       THEN [raised |-> TRUE, selected |-> <<>>, rng |-> s, log |-> <<>>, draws |-> <<>>]
       ELSE [raised |-> FALSE] @@
            SampleLoopBuckets(folder, requested.req, folder_buckets, s, rowNo, 1)

\* ---------------------------------------------------------------- dedup

RECURSIVE Position(_, _, _, _)
Position(list, folder, path, i) ==
    IF i > Len(list) THEN 0
    ELSE IF list[i].folder = folder /\ list[i].path = path THEN i
         ELSE Position(list, folder, path, i + 1)

\* No deduplication: final_list = all_selected.
Dedup_Keep(all, i, acc) == all

\* unique_selected[(fi.folder, fi.path)] = fi over all_selected, then
\* list(unique_selected.values()): a key keeps the place of its first
\* insertion and the value of its last.
RECURSIVE Dedup(_, _, _)
Dedup(all, i, acc) ==
    IF i > Len(all) THEN acc
    ELSE LET fi == all[i]
             at == Position(acc, fi.folder, fi.path, 1)
         IN Dedup(all, i + 1,
                  IF at = 0 THEN Append(acc, fi) ELSE [acc EXCEPT ![at] = fi])

\* --------------------------------------------------------------- inputs

\* Folder keys a plan may name: a directory, a directory below it, and one
\* that is not on disk.
Keys == { <<"a">>, <<"a", "s">>, <<"ghost">> }

\* The two per-bucket columns the plans carry; the other six are absent.
PlanBuckets == {"[0, 1)", "[5, 10)"}

CountCells == {NaN, Text} \cup {Num(n) : n \in 0..MaxReq}
SecondCells == {NaN, Num(1)}
TargetCells == {Num(MaxReq)}

SampleCells ==
    { [b \in BucketSet |-> IF b = "[0, 1)" THEN c1
                           ELSE IF b = "[5, 10)" THEN c2 ELSE NaN] :
        c1 \in CountCells, c2 \in SecondCells }

SampleColumns == {SamplesCol(b) : b \in PlanBuckets}

\* The column sets tried: the usual header, the legacy one without a target
\* column, and one with no folder column at all.
ColumnSets ==
    { {ColFolder, ColTarget} \cup SampleColumns,
      {ColGroup} \cup SampleColumns,
      SampleColumns }

\* The rows a CSV with these columns can hold; a field whose column is
\* absent holds a filler that nothing reads.
PlanRows(columns) ==
    [Folder : IF ColFolder \in columns \/ ColGroup \in columns THEN Keys ELSE {<<>>},
     Target : IF ColTarget \in columns THEN TargetCells ELSE {NaN},
     Samples : SampleCells]

SeqsUpTo(S, n) == UNION { [1..k -> S] : k \in 1..n }

\* The plan files of up to n rows.
PlansUpTo(n) ==
    UNION { { [columns |-> c, rows |-> r] : r \in SeqsUpTo(PlanRows(c), n) } :
            c \in ColumnSets }

Seeds == 0..MaxSeed

\* ---------------------------------------------------------------- state

EmptyMap == [k \in {} |-> <<>>]
EmptyDf == [columns |-> {}, rows |-> <<>>]

NoRun ==
    [valid |-> FALSE, plan |-> [columns |-> {}, rows |-> <<>>], seed |-> 0,
     pc |-> "start", files |-> <<>>, manifest |-> <<>>, written |-> FALSE,
     draws |-> <<>>, log |-> <<>>]

\* The state run_sampling starts from.
Fresh ==
    /\ pc = "start"
    /\ rng = 0
    /\ plan_df = EmptyDf
    /\ row = 0
    /\ files = <<>>
    /\ folder_bucket_map = EmptyMap
    /\ all_selected = <<>>
    /\ manifest = <<>>
    /\ written = FALSE
    /\ log = <<>>
    /\ draws = <<>>
    /\ error = ""

Init ==
    /\ plan_csv \in PlansUpTo(MaxRows)
    /\ disk \in Disks
    /\ seed \in Seeds
    /\ Fresh
    /\ run = 1
    /\ prev = NoRun
    /\ duration = <<0, 1>>
    /\ label = ""

\* -------------------------------------------------------------- actions

inputs == << plan_csv, disk, seed, run, prev, duration, label >>

\* run_sampling up to the loaded plan: rng = random.Random(seed), then
\* load_sampling_plan, which raises when there is no folder column.
LoadPlan ==
    /\ pc = "start"
    /\ rng' = SeedRng(seed)
    /\ LET r == load_sampling_plan(plan_csv) IN
       IF r.raised
       THEN /\ pc' = "aborted"
            /\ error' = "ValueError: no Folder column"
            /\ UNCHANGED << plan_df, row, log >>
       ELSE /\ plan_df' = r.df
            /\ log' = Append(log, Msg("INFO", "loaded", NoPath, "", Len(r.df.rows)))
            /\ row' = 1
            /\ pc' = "index"
            /\ error' = error
    /\ UNCHANGED << files, folder_bucket_map, all_selected, manifest, written, draws >>
    /\ UNCHANGED inputs

\* build_file_index, one plan row.
IndexRow ==
    /\ pc = "index"
    /\ row <= Len(plan_df.rows)
    /\ LET r == IndexRowResult(plan_df.rows[row], disk) IN
       /\ files' = files \o r.files
       /\ log' = log \o r.log
    /\ row' = row + 1
    /\ UNCHANGED << pc, rng, plan_df, folder_bucket_map, all_selected, manifest,
                    written, draws, error >>
    /\ UNCHANGED inputs

\* The end of build_file_index, then build_folder_bucket_map.
BuildMap ==
    /\ pc = "index"
    /\ row > Len(plan_df.rows)
    /\ log' = Append(log, Msg("INFO", "total_indexed", NoPath, "", Len(files)))
    /\ folder_bucket_map' = build_folder_bucket_map(files)
    /\ all_selected' = <<>>
    /\ row' = 1
    /\ pc' = "sample"
    /\ UNCHANGED << rng, plan_df, files, manifest, written, draws, error >>
    /\ UNCHANGED inputs

\* int(row["Target Samples"]) if the column is there and the cell is not NaN
TargetRaises(r, columns) ==
    ColTarget \in columns /\ ~isna(r.Target) /\ IntRaises(r.Target)
HasTarget(r, columns) == ColTarget \in columns /\ ~isna(r.Target)

\* What one iteration of run_sampling's loop over the plan rows yields.
SampleRowResult(r, columns, fbm, s, rowNo) ==
    LET folder_key == r.Folder
        folder_buckets == IF folder_key \in DOMAIN fbm THEN fbm[folder_key] ELSE EmptyMap
        skip == [raised |-> FALSE, selected |-> <<>>, rng |-> s, draws |-> <<>>,
                 log |-> << Msg("WARN", "no_bucketed", KeyPath(folder_key), "", 0) >>]
    IN IF TargetRaises(r, columns)
       THEN [skip EXCEPT !.raised = TRUE, !.log = <<>>]
       ELSE IF DOMAIN folder_buckets = {}
            THEN skip
            ELSE LET got == sample_for_folder(folder_key, r, columns, folder_buckets,
                                              s, rowNo)
                     short == IF ~got.raised /\ HasTarget(r, columns)
                                 /\ Len(got.selected) < IntOf(r.Target)
                              THEN << Msg("WARN", "target_short", KeyPath(folder_key),
                                          "", IntOf(r.Target)) >>
                              ELSE <<>>
                 IN [got EXCEPT !.log = got.log \o short]

SampleRow ==
    /\ pc = "sample"
    /\ row <= Len(plan_df.rows)
    /\ LET got == SampleRowResult(plan_df.rows[row], plan_df.columns,
                                  folder_bucket_map, rng, row) IN
       IF got.raised
       THEN /\ pc' = "aborted"
            /\ error' = "ValueError: int()"
            /\ UNCHANGED << rng, row, all_selected, log, draws >>
       ELSE /\ all_selected' = all_selected \o got.selected
            /\ rng' = got.rng
            /\ log' = log \o got.log
            /\ draws' = draws \o got.draws
            /\ row' = row + 1
            /\ UNCHANGED << pc, error >>
    /\ UNCHANGED << plan_df, files, folder_bucket_map, manifest, written >>
    /\ UNCHANGED inputs

\* A manifest row (duration_sec, a rounding of the duration that nothing
\* else reads, is left out).
ManifestRow(fi) ==
    [folder |-> fi.folder, rel_path |-> fi.rel_path, full_path |-> fi.path,
     bucket |-> fi.bucket]

\* The deduplication and the writing of output_csv.
WriteManifest ==
    /\ pc = "sample"
    /\ row > Len(plan_df.rows)
    /\ LET final_list == Dedup(all_selected, 1, <<>>) IN
       /\ manifest' = [i \in 1..Len(final_list) |-> ManifestRow(final_list[i])]
       /\ log' = log \o << Msg("INFO", "final", NoPath, "", Len(final_list)),
                           Msg("INFO", "wrote", NoPath, "", 0) >>
    /\ written' = TRUE
    /\ pc' = "done"
    /\ UNCHANGED << rng, plan_df, row, files, folder_bucket_map, all_selected,
                    draws, error >>
    /\ UNCHANGED inputs

\* The rows of a plan whose folder is a directory under the audio root.
OnDisk(r) == isdir(r.Folder)
WithoutMissing(p) == [p EXCEPT !.rows = SelectSeq(p.rows, OnDisk)]

\* The program is run a second time on the same disk: with the same
\* arguments, with another seed, or with the plan's missing folders removed.
Rerun ==
    /\ pc \in {"done", "aborted"}
    /\ run = 1
    /\ prev' = [valid |-> TRUE, plan |-> plan_csv, seed |-> seed, pc |-> pc,
                files |-> files, manifest |-> manifest, written |-> written,
                draws |-> draws, log |-> log]
    /\ run' = 2
    /\ \/ /\ seed' \in Seeds
          /\ plan_csv' = plan_csv
       \/ /\ seed' = seed
          /\ plan_csv' = WithoutMissing(plan_csv)
          /\ plan_csv' # plan_csv
    /\ pc' = "start"
    /\ rng' = 0
    /\ plan_df' = EmptyDf
    /\ row' = 0
    /\ files' = <<>>
    /\ folder_bucket_map' = EmptyMap
    /\ all_selected' = <<>>
    /\ manifest' = <<>>
    /\ written' = FALSE
    /\ log' = <<>>
    /\ draws' = <<>>
    /\ error' = ""
    /\ UNCHANGED << disk, duration, label >>

Next ==
    \/ LoadPlan
    \/ IndexRow
    \/ BuildMap
    \/ SampleRow
    \/ WriteManifest
    \/ Rerun

Spec == Init /\ [][Next]_vars

\* --------------------------------------------------- classifier, alone

InitBucket ==
    /\ plan_csv = [columns |-> {}, rows |-> <<>>]
    /\ disk = <<>>
    /\ seed = 0
    /\ Fresh
    /\ run = 1
    /\ prev = NoRun
    /\ duration \in (0..MaxFrames) \X (1..MaxRate)
    /\ label = ""

\* bucket = assign_bucket(dur), as build_file_index calls it.
Classify ==
    /\ label = ""
    /\ label' = assign_bucket(duration)
    /\ UNCHANGED << plan_csv, disk, seed, pc, rng, plan_df, row, files,
                    folder_bucket_map, all_selected, manifest, written, log,
                    draws, error, run, prev, duration >>

NextBucket == Classify

SpecBucket == InitBucket /\ [][NextBucket]_vars

\* ------------------------------------------------------ reading a state

HasFolderColumn(p) == ColFolder \in p.columns \/ ColGroup \in p.columns

\* Every count cell of the plan holds a number or is empty.
NumericPlan(p) ==
    \A i \in 1..Len(p.rows) :
       /\ (ColTarget \in p.columns => p.rows[i].Target.kind # "text")
       /\ \A b \in BucketSet :
             SamplesCol(b) \in p.columns => p.rows[i].Samples[b].kind # "text"

LogHas(level, kind, subject, b) ==
    \E i \in 1..Len(log) :
       /\ log[i].level = level
       /\ log[i].kind = kind
       /\ log[i].subject = subject
       /\ log[i].bucket = b

\* The full paths of the manifest rows of one folder and bucket.
ManifestPaths(folder, b) ==
    { manifest[i].full_path :
        i \in {j \in 1..Len(manifest) : manifest[j].folder = folder /\ manifest[j].bucket = b} }

PathsOf(list) == { list[i].path : i \in 1..Len(list) }

\* The index entries of one folder and bucket.
IndexEntries(folder, b) ==
    IF folder \in DOMAIN folder_bucket_map
    THEN Available(folder_bucket_map[folder], b)
    ELSE <<>>

Min(a, b) == IF a <= b THEN a ELSE b

\* --------------------------------------------------------------- claims

\* C1: in a finished run, every requested bucket of every plan row that
\* asks for K files with 0 < K < N, N the number of files indexed for that
\* folder and bucket, has exactly K distinct files in the manifest, each of
\* them one of the N indexed; this holds whatever the seed.
C1_ExactlyKOfN ==
    pc = "done" =>
      \A i \in 1..Len(draws) :
         LET d == draws[i] IN
         (0 < d.nreq /\ d.nreq < d.navail) =>
            /\ Cardinality(ManifestPaths(d.folder, d.bucket)) = d.nreq
            /\ ManifestPaths(d.folder, d.bucket) \subseteq PathsOf(IndexEntries(d.folder, d.bucket))

\* C10: in a finished run over a plan that lists one folder in two or more
\* rows with the same per-bucket requests, each requested bucket with N
\* files on disk and request K has exactly min(K, N) distinct files in the
\* manifest, as it has when the folder is listed once.
C10_TwiceAsOnce ==
    (/\ pc = "done"
     /\ Len(plan_csv.rows) >= 2
     /\ \A i \in 1..Len(plan_csv.rows) :
           /\ plan_csv.rows[i].Folder = plan_csv.rows[1].Folder
           /\ plan_csv.rows[i].Samples = plan_csv.rows[1].Samples)
    =>
      \A b \in PlanBuckets :
         LET cell == plan_csv.rows[1].Samples[b]
             folder == plan_csv.rows[1].Folder
             onDisk == Cardinality(PathsOf(IndexEntries(folder, b)))
         IN (cell.kind = "num" /\ cell.val > 0) =>
               Cardinality(ManifestPaths(folder, b)) = Min(cell.val, onDisk)

\* Some line of the given level names this folder and bucket.
LinesFor(level, folder, b) ==
    { i \in 1..Len(log) :
        log[i].level = level /\ log[i].subject = KeyPath(folder) /\ log[i].bucket = b }

\* C2 as stated: every requested bucket that asks for more files than the
\* folder has in it gets all of them into the manifest, the run does not
\* fail (the plan's count cells being numbers or empty), and a warning is
\* printed for that folder and bucket (the bucket's own warning, or the
\* folder's target warning).
C2_ShortfallWarned ==
    \A i \in 1..Len(draws) :
       LET d == draws[i] IN
       d.nreq > d.navail =>
          /\ NumericPlan(plan_csv) => pc # "aborted"
          /\ pc = "done" =>
                PathsOf(IndexEntries(d.folder, d.bucket)) \subseteq ManifestPaths(d.folder, d.bucket)
          /\ \/ LinesFor("WARN", d.folder, d.bucket) # {}
             \/ LogHas("WARN", "target_short", KeyPath(d.folder), "")

\* C2 as amended: a requested bucket that asks for K files and has N < K
\* index entries selects all N, in index order, and a finished run has all of
\* them in its manifest; with N >= 1 the line printed for that folder and
\* bucket is the informational "taking all" note and no warning names the
\* bucket, with N = 0 it is the "found 0 files" warning; and a plan whose
\* count cells are all numbers or empty does not make the run fail.
C2_ShortfallTakesAll ==
    \A i \in 1..Len(draws) :
       LET d == draws[i] IN
       d.nreq > d.navail =>
          /\ d.chosen = IndexEntries(d.folder, d.bucket)
          /\ Len(d.chosen) = d.navail
          /\ pc = "done" =>
                PathsOf(IndexEntries(d.folder, d.bucket)) \subseteq ManifestPaths(d.folder, d.bucket)
          /\ d.navail > 0 =>
                /\ LogHas("INFO", "taking_all", KeyPath(d.folder), d.bucket)
                /\ LinesFor("WARN", d.folder, d.bucket) = {}
          /\ d.navail = 0 => LogHas("WARN", "found_zero", KeyPath(d.folder), d.bucket)
          /\ NumericPlan(plan_csv) => pc # "aborted"

\* A finished run in which a bucket with files was asked for more than it has.
C2_Witness ==
    /\ pc = "done"
    /\ \E i \in 1..Len(draws) :
          /\ draws[i].nreq > draws[i].navail
          /\ draws[i].navail > 0
          /\ ManifestPaths(draws[i].folder, draws[i].bucket) # {}

\* C3: a requested bucket whose available count is at most the requested
\* count leaves the random source as it found it and selects the available
\* files in index order; and in two runs over the same plan and disk,
\* whatever their seeds, such a bucket selects the same files in the same
\* order.
C3_TakeAllNoRandom ==
    /\ \A i \in 1..Len(draws) :
          LET d == draws[i] IN
          d.navail <= d.nreq =>
             /\ d.after = d.before
             /\ d.chosen = IndexEntries(d.folder, d.bucket)
    /\ (run = 2 /\ prev.plan = plan_csv) =>
          \A i \in 1..Len(draws) : \A j \in 1..Len(prev.draws) :
             (/\ draws[i].row = prev.draws[j].row
              /\ draws[i].bucket = prev.draws[j].bucket
              /\ draws[i].navail <= draws[i].nreq)
             => draws[i].chosen = prev.draws[j].chosen

\* Two finished runs of one plan under different seeds whose manifests
\* differ, with a bucket that was asked for exactly the two or more files
\* it has.
C3_Witness ==
    /\ run = 2
    /\ pc = "done"
    /\ prev.pc = "done"
    /\ prev.plan = plan_csv
    /\ prev.seed # seed
    /\ prev.manifest # manifest
    /\ \E i \in 1..Len(draws) :
          /\ draws[i].navail = draws[i].nreq
          /\ draws[i].navail >= 2

\* C4: two runs over the same plan, disk and seed end alike, with the same
\* manifest rows in the same order; and in every run the random source
\* starts from the seed, each requested bucket starts from the state the
\* one before it left, and the requested buckets follow plan order and,
\* within a row, the order of BUCKET_DEFS.
C4_SameSeedSameManifest ==
    /\ (/\ run = 2
        /\ prev.plan = plan_csv
        /\ prev.seed = seed
        /\ pc \in {"done", "aborted"})
       => /\ pc = prev.pc
          /\ manifest = prev.manifest
          /\ written = prev.written
          /\ draws = prev.draws
    /\ pc # "start" =>
          rng = IF draws = <<>> THEN seed % RngMod ELSE draws[Len(draws)].after
    /\ draws # <<>> => draws[1].before = seed % RngMod
    /\ \A i \in 1..(Len(draws) - 1) :
          /\ draws[i + 1].before = draws[i].after
          /\ \/ draws[i].row < draws[i + 1].row
             \/ /\ draws[i].row = draws[i + 1].row
                /\ BucketIndex(draws[i].bucket) < BucketIndex(draws[i + 1].bucket)

\* The number of requested buckets that drew at random.
RandomDraws == Cardinality({ i \in 1..Len(draws) : draws[i].nreq < draws[i].navail })

\* A finished rerun with the first run's plan and seed, in which two
\* buckets of one row drew at random and files were written.
C4_Witness ==
    /\ run = 2
    /\ pc = "done"
    /\ prev.plan = plan_csv
    /\ prev.seed = seed
    /\ manifest # <<>>
    /\ \E i \in 1..Len(draws) : \E j \in 1..Len(draws) :
          /\ i < j
          /\ draws[i].row = draws[j].row
          /\ draws[i].nreq < draws[i].navail
          /\ draws[j].nreq < draws[j].navail

\* C5: the manifest of a finished run holds no (folder, full path) pair
\* twice, holds every pair some row selected exactly once, and holds
\* nothing else.
C5_ManifestUnique ==
    pc = "done" =>
      /\ \A i \in 1..Len(manifest) : \A j \in 1..Len(manifest) :
            (manifest[i].folder = manifest[j].folder
             /\ manifest[i].full_path = manifest[j].full_path) => i = j
      /\ \A k \in 1..Len(all_selected) :
            Cardinality({ i \in 1..Len(manifest) :
                            /\ manifest[i].folder = all_selected[k].folder
                            /\ manifest[i].full_path = all_selected[k].path }) = 1
      /\ \A i \in 1..Len(manifest) :
            \E k \in 1..Len(all_selected) : manifest[i] = ManifestRow(all_selected[k])

\* A finished run whose rows selected some pair more than once.
C5_Witness ==
    /\ pc = "done"
    /\ manifest # <<>>
    /\ Len(all_selected) > Len(manifest)

\* The plan rows build_file_index is done with.
RowsIndexed ==
    IF pc = "index" THEN 1..(row - 1)
    ELSE IF pc \in {"sample", "done"} THEN 1..Len(plan_df.rows)
    ELSE {}

\* C6: a plan row whose folder is not a directory under the audio root puts
\* no record in the index and no row in the manifest, and a warning is
\* printed for it when it is indexed; a plan with a folder column whose
\* count cells are numbers or empty runs to the end all the same; and a run
\* of the plan without its missing rows, same disk and seed, ends like the
\* run with them: same index, same manifest.
C6_MissingFolderHarmless ==
    /\ \A k \in 1..Len(files) : isdir(files[k].folder)
    /\ \A k \in 1..Len(manifest) : isdir(manifest[k].folder)
    /\ \A i \in RowsIndexed :
          ~isdir(plan_df.rows[i].Folder) =>
             LogHas("WARN", "folder_not_found",
                    KeyPath(JoinRoot(plan_df.rows[i].Folder)), "")
    /\ (HasFolderColumn(plan_csv) /\ NumericPlan(plan_csv)) => pc # "aborted"
    /\ (/\ run = 2
        /\ plan_csv # prev.plan
        /\ plan_csv = WithoutMissing(prev.plan)
        /\ prev.seed = seed
        /\ pc \in {"done", "aborted"})
       => /\ pc = prev.pc
          /\ files = prev.files
          /\ manifest = prev.manifest
          /\ written = prev.written

\* A finished run of a two-row plan without its first row, which named a
\* missing folder, the other row having drawn at random.
C6_Witness ==
    /\ run = 2
    /\ pc = "done"
    /\ Len(prev.plan.rows) = 2
    /\ ~isdir(prev.plan.rows[1].Folder)
    /\ Len(plan_csv.rows) = 1
    /\ prev.seed = seed
    /\ manifest # <<>>
    /\ RandomDraws > 0

\* Bucket i's range holds the duration d.
InRange(i, d) ==
    /\ BUCKET_DEFS[i].lo * d[2] <= d[1]
    /\ BUCKET_DEFS[i].open \/ d[1] < BUCKET_DEFS[i].hi * d[2]

\* C7: every duration d >= 0 lies in the range of exactly one of the eight
\* buckets, assign_bucket(d) is that bucket's label, and a duration equal
\* to a bound 1, 5, 10, 15, 20, 25 or 30 gets the bucket that starts there.
C7_Partition ==
    /\ Cardinality({ i \in 1..Len(BUCKET_DEFS) : InRange(i, duration) }) = 1
    /\ Len(BUCKET_DEFS) = 8
    /\ label # "" =>
          /\ \E i \in 1..Len(BUCKET_DEFS) :
                InRange(i, duration) /\ label = BUCKET_DEFS[i].name
          /\ \A i \in 2..Len(BUCKET_DEFS) :
                duration[1] = BUCKET_DEFS[i].lo * duration[2] =>
                   label = BUCKET_DEFS[i].name

\* The classifier has answered for a duration of 30 s, the last bound.
C7_Witness ==
    /\ label = "[30+)"
    /\ duration[1] = 30 * duration[2]

\* C8: the run aborts only when the plan has neither a Folder nor a group
\* column, and then before any file is indexed or any output written; a
\* count cell that is empty or no number is no request and no error.
C8_AbortsOnlyWithoutFolderColumn ==
    pc = "aborted" =>
      /\ ~HasFolderColumn(plan_csv)
      /\ files = <<>>
      /\ ~written

\* The rows of the plan that name this folder key.
RowsNaming(key) == { j \in 1..Len(plan_df.rows) : plan_df.rows[j].Folder = key }

\* C9: once the index is built, every candidate audio file whose probe
\* failed or reported a sample rate <= 0 has a warning in the log and no
\* record in the index, and every other candidate has one record per plan
\* row naming the folder it was found under.
C9_BadProbeWarnedAndExcluded ==
    pc \in {"sample", "done"} =>
      \A i \in 1..Len(plan_df.rows) :
         LET key == plan_df.rows[i].Folder
             found == find_files_in_folder(key).files
         IN \A c \in 1..Len(found) :
               LET probe == disk[found[c].file]
                   records == { k \in 1..Len(files) :
                                  files[k].folder = key /\ files[k].path = found[c].path }
               IN IF ~probe.ok \/ probe.samplerate <= 0
                  THEN /\ LogHas("WARN", "unreadable", found[c].path, "")
                       /\ records = {}
                  ELSE Cardinality(records) = Cardinality(RowsNaming(key))

\* C11: no two rows of the manifest written by a finished run have the same
\* full path or the same rel_path, whatever folder keys the plan names
\* (a key may be a parent directory of another).
C11_OnePathPerRow ==
    pc = "done" =>
      \A i \in 1..Len(manifest) : \A j \in 1..Len(manifest) :
         (manifest[i].full_path = manifest[j].full_path
          \/ manifest[i].rel_path = manifest[j].rel_path) => i = j

====
